---- MODULE Spec2Model ----
(***************************************************************************)
(* Model of draw.py: a fixed pixel-art pattern is composited onto a 7 x 52 *)
(* grid, inverted and shaded, and then either previewed or materialised as *)
(* a sequence of back-dated empty commits.                                 *)
(*                                                                         *)
(* Dates are proleptic Gregorian ordinals (0001-01-01 is day 1), the value *)
(* datetime.toordinal() returns; a datetime at midnight is its ordinal.    *)
(* The grid is a function row -> column -> weight with 0-based indices, as *)
(* the Python list of lists.                                               *)
(***************************************************************************)
EXTENDS Integers, Sequences, FiniteSets, TLC

VARIABLES
    pc,            \* position of the script
    err,           \* exception raised, "none" when there is none
    grid,          \* module-level grid
    today,         \* the system clock's current day
    start,         \* get_heatmap_start() as make_commits/preview bound it
    sprite,        \* argument of the place() call under study (SpecPlace)
    start_col,     \* argument of the place() call under study (SpecPlace)
    grid0,         \* the grid before the place() call under study (SpecPlace)
    col,           \* make_commits: the column the outer loop does next
    count, errors, \* make_commits: its counters
    total_needed,  \* make_commits: its total
    log,           \* every subprocess.run invocation of this run, in order
    nonzero,       \* number of invocations that returned a non-zero status
    progress,      \* the counts printed by the progress line, in order
    lit_fill,      \* preview: its count of filled cells
    total_commits, \* preview: its total
    repo,          \* the repository's commit history (SpecRerun)
    run,           \* number of the current run of the script (SpecRerun)
    grid1,         \* the shaded grid of the first run (SpecRerun)
    end_date,      \* preview's end date / the date under study (SpecDate)
    cell           \* index of the cell under study (SpecDate)

placeVars == <<sprite, start_col, grid0>>
commitVars == <<col, count, errors, total_needed, log, nonzero, progress>>
previewVars == <<lit_fill, total_commits>>
rerunVars == <<repo, run, grid1>>
dateVars == <<end_date, cell>>

vars == <<pc, err, grid, today, start, placeVars, commitVars, previewVars, rerunVars,
          dateVars>>

(***************************************************************************)
(* Program constants                                                       *)
(***************************************************************************)
COLS == 52
ROWS == 7
COMMITS_FILL == 10
PROGRESS_EVERY == 200
WEEKS_BACK == 51
GHOST_COL == 3
PACMAN_COL == 41
TRAIL_ROW == 3
TRAIL_FROM == 11
TRAIL_TO == 40
TRAIL_STEP == 2
NOON == 12

PACMAN_LEFT ==
    << <<0, 1, 1, 1, 1, 1, 0>>,
       <<1, 1, 1, 1, 1, 1, 1>>,
       <<0, 1, 1, 1, 1, 1, 1>>,
       <<0, 0, 0, 1, 1, 1, 1>>,
       <<0, 1, 1, 1, 1, 1, 1>>,
       <<1, 1, 1, 1, 1, 1, 1>>,
       <<0, 1, 1, 1, 1, 1, 0>> >>

GHOST ==
    << <<0, 1, 1, 1, 1, 1, 0>>,
       <<1, 1, 1, 1, 1, 1, 1>>,
       <<1, 1, 0, 1, 0, 1, 1>>,
       <<1, 1, 1, 1, 1, 1, 1>>,
       <<1, 1, 1, 1, 1, 1, 1>>,
       <<1, 1, 1, 1, 1, 1, 1>>,
       <<1, 0, 1, 0, 1, 0, 1>> >>

(***************************************************************************)
(* Bounds of the model                                                     *)
(***************************************************************************)
MainDays == 1          \* days the clock may show in Spec
DateDays == 800        \* days the clock may show in SpecDate
MaxErrors == 2         \* Spec: failing invocations of a run
LastMayFail == 1       \* SpecRerun: only the last LastMayFail invocations of a run may fail
MaxOffset == 60        \* largest column offset tried in SpecPlace

ReturnCodes == {0, 1, 128}

(***************************************************************************)
(* Python list semantics                                                   *)
(***************************************************************************)
\* enumerate(): a Python list given as a TLA+ sequence has 0-based index k at k + 1
At(list, k) == list[k + 1]

\* truth value of an int
Truthy(val) == val # 0

ZeroGrid == [r \in 0..(ROWS - 1) |-> [c \in 0..(COLS - 1) |-> 0]]

\* grid[r][c] = v.  A list index is valid in -len .. len-1, a negative one
\* counting from the end; any other index raises IndexError.
IndexOK(r, c) == r \in (0 - ROWS)..(ROWS - 1) /\ c \in (0 - COLS)..(COLS - 1)
Norm(k, n) == IF k < 0 THEN k + n ELSE k
SetCell(g, r, c, v) == [g EXCEPT ![Norm(r, ROWS)][Norm(c, COLS)] = v]

(***************************************************************************)
(* place(sprite, start_col): the state is [g |-> grid, e |-> exception].   *)
(* The cells of the sprite are visited row by row; an exception ends the   *)
(* loops.                                                                  *)
(***************************************************************************)
\* faulty variant: the write is not guarded by `if col < COLS`
PlaceWriteNoClip(st, spr, sc, r, c) ==
    LET col_ == sc + c
    IN  IF st.e # "none" THEN st
        ELSE IF IndexOK(r, col_)
             THEN [st EXCEPT !.g = SetCell(st.g, r, col_,
                                           IF Truthy(At(At(spr, r), c)) THEN 1 ELSE 0)]
             ELSE [st EXCEPT !.e = "IndexError"]

PlaceWrite(st, spr, sc, r, c) ==
    LET col_ == sc + c
    IN  IF st.e # "none" THEN st
        ELSE IF col_ < COLS
             THEN IF IndexOK(r, col_)
                  THEN [st EXCEPT !.g = SetCell(st.g, r, col_,
                                                IF Truthy(At(At(spr, r), c)) THEN 1 ELSE 0)]
                  ELSE [st EXCEPT !.e = "IndexError"]
             ELSE st

\* for c, val in enumerate(row): columns c.. of sprite row r
RECURSIVE PlaceRow(_, _, _, _, _)
PlaceRow(st, spr, sc, r, c) ==
    IF st.e # "none" \/ c >= Len(At(spr, r)) THEN st
    ELSE PlaceRow(PlaceWrite(st, spr, sc, r, c), spr, sc, r, c + 1)

\* for r, row in enumerate(sprite): rows r.. of the sprite
RECURSIVE PlaceFrom(_, _, _, _)
PlaceFrom(st, spr, sc, r) ==
    IF st.e # "none" \/ r >= Len(spr) THEN st
    ELSE PlaceFrom(PlaceRow(st, spr, sc, r, 0), spr, sc, r + 1)

place(g, spr, sc) == PlaceFrom([g |-> g, e |-> "none"], spr, sc, 0)

\* faulty variant: range(11, 39, 2), the trail stops one dot short
TrailColsShort == {c \in TRAIL_FROM..(TRAIL_TO - 2) : (c - TRAIL_FROM) % TRAIL_STEP = 0}

\* for col in range(11, 40, 2): grid[3][col] = 1
TrailCols == {c \in TRAIL_FROM..(TRAIL_TO - 1) : (c - TRAIL_FROM) % TRAIL_STEP = 0}
Trail(g) == [g EXCEPT ![TRAIL_ROW] = [c \in 0..(COLS - 1) |->
                                        IF c \in TrailCols THEN 1 ELSE g[TRAIL_ROW][c]]]

\* grid[_r][_c] = 1 - grid[_r][_c]
Invert(g) == [r \in 0..(ROWS - 1) |-> [c \in 0..(COLS - 1) |-> 1 - g[r][c]]]

\* compute_shading()
compute_shading(g) ==
    [r \in 0..(ROWS - 1) |-> [c \in 0..(COLS - 1) |->
        IF Truthy(g[r][c]) THEN COMMITS_FILL ELSE g[r][c]]]

(***************************************************************************)
(* Date helpers                                                            *)
(***************************************************************************)
\* datetime.weekday(): Monday is 0, Sunday is 6
weekday(d) == (d + 6) % 7

\* faulty variant: weekday() taken as counting from Sunday
get_heatmap_start_monday(now) ==
    LET days_since_sunday == weekday(now)
        current_sunday == now - days_since_sunday
    IN  current_sunday - 7 * WEEKS_BACK

get_heatmap_start(now) ==
    LET days_since_sunday == (weekday(now) + 1) % 7
        current_sunday == now - days_since_sunday
    IN  current_sunday - 7 * WEEKS_BACK

\* faulty variant: the column and the row swapped
col_row_to_date_swapped(s, c, r) == s + (r * 7 + c)

col_row_to_date(s, c, r) == s + (c * 7 + r)

\* the calendar (year, month, day) of an ordinal, as datetime computes it
IsLeap(y) == y % 4 = 0 /\ (y % 100 # 0 \/ y % 400 = 0)
DaysInMonth(y, m) ==
    IF m = 2 THEN (IF IsLeap(y) THEN 29 ELSE 28)
    ELSE IF m \in {4, 6, 9, 11} THEN 30 ELSE 31
RECURSIVE DaysBeforeMonth(_, _)
DaysBeforeMonth(y, m) == IF m = 1 THEN 0 ELSE DaysBeforeMonth(y, m - 1) + DaysInMonth(y, m - 1)
DaysBeforeYear(y) == (y - 1) * 365 + (y - 1) \div 4 - (y - 1) \div 100 + (y - 1) \div 400

\* the ordinal of a calendar date: days before its year, days before its month
\* in that year, day of the month
ymd2ord(ts) == DaysBeforeYear(ts[1]) + DaysBeforeMonth(ts[1], ts[2]) + ts[3]

ord2ymd(ordinal) ==
    LET n0 == ordinal - 1
        n400 == n0 \div 146097
        r400 == n0 % 146097
        n100 == r400 \div 36524
        r100 == r400 % 36524
        n4 == r100 \div 1461
        r4 == r100 % 1461
        n1 == r4 \div 365
        n == r4 % 365
        year == n400 * 400 + 1 + n100 * 100 + n4 * 4 + n1
    IN  IF n1 = 4 \/ n100 = 4 THEN <<year - 1, 12, 31>>
        ELSE LET guess == (n + 50) \div 32
                 month == IF DaysBeforeMonth(year, guess) > n THEN guess - 1 ELSE guess
             IN  <<year, month, n - DaysBeforeMonth(year, month) + 1>>

\* date.strftime('%Y-%m-%dT12:00:00'): the fields of the string, in order
strftime_noon(d) == ord2ymd(d) \o <<NOON, 0, 0>>

\* str(n) for n >= 0, as its decimal digits
RECURSIVE Digits(_)
Digits(n) == IF n < 10 THEN <<n>> ELSE Append(Digits(n \div 10), n % 10)

\* faulty variant: the label is the number of the iteration within its cell
MessagePerCell(n) == <<"pixel #">> \o Digits(((n - 1) % COMMITS_FILL) + 1)

\* faulty variant: the counter goes on from the previous run's
MessageFromHistory(n) == <<"pixel #">> \o Digits(n + (run - 1) * total_needed)

\* f'pixel #{count}'
Message(n) == <<"pixel #">> \o Digits(n)

(***************************************************************************)
(* Preview and commit generator: the pure parts                            *)
(***************************************************************************)
Cells == 0..(ROWS * COLS - 1)
\* f[lo] + ... + f[hi]
RECURSIVE SumRange(_, _, _)
SumRange(f, lo, hi) ==
    IF lo > hi THEN 0
    ELSE IF lo = hi THEN f[lo]
    ELSE LET mid == (lo + hi) \div 2
         IN  SumRange(f, lo, mid) + SumRange(f, mid + 1, hi)

\* f[0] + ... + f[k]
SumSeq(f, k) == SumRange(f, 0, k)

\* sum(1 for r in range(7) for c in range(COLS) if grid[r][c] == COMMITS_FILL)
LitFill(g) == Cardinality({n \in Cells : g[n % ROWS][n \div ROWS] = COMMITS_FILL})

\* faulty variant: the number of filled cells reported as the total
PreviewTotalCells(g) == LitFill(g)

\* lit_fill * COMMITS_FILL
PreviewTotal(g) == LitFill(g) * COMMITS_FILL

\* sum(grid[r][c] for r in range(7) for c in range(COLS))
TotalNeeded(g) == SumSeq([r \in 0..(ROWS - 1) |-> SumSeq(g[r], COLS - 1)], ROWS - 1)

\* env = {**os.environ, 'GIT_AUTHOR_DATE': date_str, 'GIT_COMMITTER_DATE': date_str}
Env(date_str) == [GIT_AUTHOR_DATE |-> date_str, GIT_COMMITTER_DATE |-> date_str]

\* faulty variant: the inner loop stops one iteration early
CellDoneEarly(k, w) == k >= w - 1

\* `for _ in range(commits_for_cell)`: the loop is over once k iterations are
\* done, for a cell of weight w
CellDone(k, w) == k >= w

\* count += 1
CountAfter(n) == n + 1

\* faulty variant: only status 1 counts as a failure
ErrorsAfterOne(e, rc) == IF rc = 1 THEN e + 1 ELSE e

\* if result.returncode != 0: errors += 1
ErrorsAfter(e, rc) == IF rc # 0 THEN e + 1 ELSE e

\* faulty variant: the progress line is printed after every cell
ProgressEveryCell(p, n) == Append(p, n)

\* if count % 200 == 0: print(f"  {count} / {total_needed} commits done...")
ProgressAfter(p, n) == IF n % PROGRESS_EVERY = 0 THEN Append(p, n) ELSE p

\* git commit --allow-empty -m msg under env: status 0 appends one commit to the
\* history, any other status leaves the history as it was
GitCommit(history, rc, env, msg) ==
    IF rc = 0
    THEN Append(history, [author |-> env.GIT_AUTHOR_DATE,
                          committer |-> env.GIT_COMMITTER_DATE, msg |-> msg])
    ELSE history

(***************************************************************************)
(* The script                                                              *)
(***************************************************************************)
\* the first day the clock may show: 2028-03-04, a Saturday; the year before it
\* holds a 29 February
TodayFirst == ymd2ord(<<2028, 3, 4>>)
Todays(k) == TodayFirst..(TodayFirst + k - 1)

\* the state the interpreter starts the script in
InitModule ==
    /\ pc = "start"
    /\ err = "none"
    /\ grid = ZeroGrid

InitArgs ==
    /\ sprite = <<>>
    /\ start_col = 0
    /\ grid0 = ZeroGrid

InitRun ==
    /\ start = 0
    /\ col = 0
    /\ count = 0
    /\ errors = 0
    /\ total_needed = 0
    /\ lit_fill = 0
    /\ total_commits = 0
    /\ log = <<>>
    /\ nonzero = 0
    /\ progress = <<>>
    /\ repo = <<>>
    /\ run = 1
    /\ grid1 = ZeroGrid
    /\ end_date = 0
    /\ cell = 0

Init ==
    /\ InitModule
    /\ InitArgs
    /\ InitRun
    /\ today \in Todays(MainDays)

\* a module-level place() call
PlaceStep(from, to, spr, sc) ==
    /\ pc = from
    /\ LET st == place(grid, spr, sc)
       IN  /\ grid' = st.g
           /\ err' = st.e
           /\ pc' = IF st.e = "none" THEN to ELSE "raised"
    /\ UNCHANGED <<today, start, placeVars, commitVars, previewVars, rerunVars, dateVars>>

PlaceGhost == PlaceStep("start", "ghost", GHOST, GHOST_COL)

DrawTrail ==
    /\ pc = "ghost"
    /\ grid' = Trail(grid)
    /\ pc' = "trail"
    /\ UNCHANGED <<err, today, start, placeVars, commitVars, previewVars, rerunVars,
                   dateVars>>

PlacePacman == PlaceStep("trail", "pacman", PACMAN_LEFT, PACMAN_COL)

InvertGrid ==
    /\ pc = "pacman"
    /\ grid' = Invert(grid)
    /\ pc' = "inverted"
    /\ UNCHANGED <<err, today, start, placeVars, commitVars, previewVars, rerunVars,
                   dateVars>>

Shade ==
    /\ pc = "inverted"
    /\ grid' = compute_shading(grid)
    /\ pc' = "shaded"
    /\ UNCHANGED <<err, today, start, placeVars, commitVars, previewVars, rerunVars,
                   dateVars>>

\* preview(): '--commit' is not in sys.argv
Preview ==
    /\ pc = "shaded"
    /\ lit_fill' = LitFill(grid)
    /\ total_commits' = PreviewTotal(grid)
    /\ start' = get_heatmap_start(today)
    /\ end_date' = col_row_to_date(get_heatmap_start(today), COLS - 1, ROWS - 1)
    /\ pc' = "previewed"
    /\ UNCHANGED <<err, grid, today, placeVars, commitVars, rerunVars, cell>>

\* make_commits() up to its loops: '--commit' is in sys.argv
MakeCommits ==
    /\ pc = "shaded"
    /\ start' = get_heatmap_start(today)
    /\ total_needed' = TotalNeeded(grid)
    /\ count' = 0
    /\ errors' = 0
    /\ col' = 0
    /\ pc' = "commit"
    /\ grid1' = IF run = 1 THEN grid ELSE grid1
    /\ UNCHANGED <<err, grid, today, placeVars, log, nonzero, progress, previewVars,
                   repo, run, dateVars>>

\* one iteration of the inner loop on the locals st of make_commits, for the cell
\* (c, r); the external tool returns rc.  st.i counts the iterations done in
\* this cell.
InvokeOnce(st, c, r, rc, history) ==
    LET env == Env(strftime_noon(col_row_to_date(start, c, r)))
        n == CountAfter(st.count)
        msg == Message(n)
    IN  [st EXCEPT
            !.count = n,
            !.errors = ErrorsAfter(st.errors, rc),
            !.nonzero = IF rc = 0 THEN st.nonzero ELSE st.nonzero + 1,
            !.log = Append(st.log, [author |-> env.GIT_AUTHOR_DATE,
                                    committer |-> env.GIT_COMMITTER_DATE,
                                    msg |-> msg, col |-> c, row |-> r]),
            !.repo = IF history THEN GitCommit(st.repo, rc, env, msg) ELSE st.repo,
            !.i = st.i + 1]

\* for _ in range(commits_for_cell): the invocations whose number is in fails
\* return rc, the others 0
RECURSIVE RunCell(_, _, _, _, _, _)
RunCell(st, c, r, fails, rc, history) ==
    IF CellDone(st.i, grid[r][c]) THEN st
    ELSE RunCell(InvokeOnce(st, c, r, IF st.count + 1 \in fails THEN rc ELSE 0, history),
                 c, r, fails, rc, history)

\* the body of `for row in range(7)` for the cell (c, r): a cell of weight 0 is
\* skipped, the progress line follows the invocations of any other
DoCell(st, c, r, fails, rc, history) ==
    IF ~Truthy(grid[r][c]) THEN st
    ELSE LET after == RunCell([st EXCEPT !.i = 0], c, r, fails, rc, history)
         IN  [after EXCEPT !.progress = ProgressAfter(st.progress, after.count)]

\* for row in range(7): rows r.. of column c
RECURSIVE RunRows(_, _, _, _, _, _)
RunRows(st, c, r, fails, rc, history) ==
    IF r >= ROWS THEN st
    ELSE RunRows(DoCell(st, c, r, fails, rc, history), c, r + 1, fails, rc, history)

\* one iteration of `for col in range(COLS)`; after the last one, the final report
Column(fails, rc, history) ==
    /\ pc = "commit"
    /\ LET st == RunRows([count |-> count, errors |-> errors, nonzero |-> nonzero,
                          log |-> log, repo |-> repo, progress |-> progress, i |-> 0],
                         col, 0, fails, rc, history)
       IN  /\ count' = st.count
           /\ errors' = st.errors
           /\ nonzero' = st.nonzero
           /\ log' = st.log
           /\ repo' = st.repo
           /\ progress' = st.progress
    /\ col' = col + 1
    /\ pc' = IF col + 1 < COLS THEN "commit" ELSE "done"
    /\ UNCHANGED <<err, grid, today, start, placeVars, total_needed, previewVars, run,
                   grid1, dateVars>>

\* the number of invocations column c makes
ColumnWeight(c) == SumSeq([r \in 0..(ROWS - 1) |-> grid[r][c]], ROWS - 1)

\* Spec: the repository is left out.  The first and the last invocation of a
\* column may fail, with one status per column; at most MaxErrors invocations of
\* a run fail.
CommitOK == Column({}, 0, FALSE)
CommitFail ==
    /\ pc = "commit"
    /\ ColumnWeight(col) > 0
    /\ \E fails \in SUBSET {count + 1, count + ColumnWeight(col)},
          rc \in ReturnCodes \ {0} :
           /\ fails # {}
           /\ errors + Cardinality(fails) <= MaxErrors
           /\ Column(fails, rc, FALSE)

Next ==
    \/ PlaceGhost
    \/ DrawTrail
    \/ PlacePacman
    \/ InvertGrid
    \/ Shade
    \/ Preview
    \/ MakeCommits
    \/ CommitOK
    \/ CommitFail

Spec == Init /\ [][Next]_vars

(***************************************************************************)
(* SpecRerun: the script run twice with --commit against one repository.   *)
(* The repository's history is kept; in each run only the last LastMayFail *)
(* invocations may fail.                                                   *)
(***************************************************************************)
TwoRuns == {1, 2}

InitRerun ==
    /\ InitModule
    /\ InitArgs
    /\ InitRun
    /\ today = TodayFirst

RerunOK == Column({}, 0, TRUE)
RerunFail ==
    /\ pc = "commit"
    /\ col = COLS - 1
    /\ \E k \in 1..LastMayFail, rc \in ReturnCodes \ {0} :
          /\ k <= ColumnWeight(col)
          /\ Column((total_needed - k + 1)..total_needed, rc, TRUE)

\* the process exits and the script is started again: every name of the module
\* is bound anew, the repository stays
Restart ==
    /\ pc = "done"
    /\ run + 1 \in TwoRuns
    /\ run' = run + 1
    /\ pc' = "start"
    /\ grid' = ZeroGrid
    /\ start' = 0
    /\ col' = 0
    /\ count' = 0
    /\ errors' = 0
    /\ total_needed' = 0
    /\ log' = <<>>
    /\ progress' = <<>>
    /\ UNCHANGED <<err, today, placeVars, nonzero, previewVars, repo, grid1, dateVars>>

NextRerun ==
    \/ PlaceGhost
    \/ DrawTrail
    \/ PlacePacman
    \/ InvertGrid
    \/ Shade
    \/ MakeCommits
    \/ RerunOK
    \/ RerunFail
    \/ Restart

SpecRerun == InitRerun /\ [][NextRerun]_vars

(***************************************************************************)
(* SpecPlace: one place() call, on a sprite and a column offset drawn from *)
(* bounded sets, made on a grid the script calls place() on.               *)
(***************************************************************************)
FULL ==
    << <<1, 1, 1, 1, 1, 1, 1>>,
       <<1, 1, 1, 1, 1, 1, 1>>,
       <<1, 1, 1, 1, 1, 1, 1>>,
       <<1, 1, 1, 1, 1, 1, 1>>,
       <<1, 1, 1, 1, 1, 1, 1>>,
       <<1, 1, 1, 1, 1, 1, 1>>,
       <<1, 1, 1, 1, 1, 1, 1>> >>

BLANK ==
    << <<0, 0, 0, 0, 0, 0, 0>>,
       <<0, 0, 0, 0, 0, 0, 0>>,
       <<0, 0, 0, 0, 0, 0, 0>>,
       <<0, 0, 0, 0, 0, 0, 0>>,
       <<0, 0, 0, 0, 0, 0, 0>>,
       <<0, 0, 0, 0, 0, 0, 0>>,
       <<0, 0, 0, 0, 0, 0, 0>> >>

\* pixels other than 0 and 1: 2 and -1 are true
MIXED ==
    << <<2, 0, 2, 0, 2, 0, 2>>,
       <<-1, 1, -1, 1, -1, 1, -1>>,
       <<0, 2, 0, 2, 0, 2, 0>>,
       <<1, -1, 1, -1, 1, -1, 1>>,
       <<2, 0, 2, 0, 2, 0, 2>>,
       <<-1, 1, -1, 1, -1, 1, -1>>,
       <<0, 2, 0, 2, 0, 2, 0>> >>
Sprites == {GHOST, PACMAN_LEFT, FULL, BLANK, MIXED}

InitPlace ==
    /\ pc = "place_call"
    /\ err = "none"
    /\ grid0 \in {ZeroGrid, Trail(place(ZeroGrid, GHOST, GHOST_COL).g)}
    /\ grid = grid0
    /\ sprite \in Sprites
    /\ start_col \in 0..MaxOffset
    /\ InitRun
    /\ today = TodayFirst

PlaceCall ==
    /\ pc = "place_call"
    /\ LET st == place(grid, sprite, start_col)
       IN  /\ grid' = st.g
           /\ err' = st.e
           /\ pc' = IF st.e = "none" THEN "placed" ELSE "raised"
    /\ UNCHANGED <<today, start, placeVars, commitVars, previewVars, rerunVars, dateVars>>

NextPlace == PlaceCall

SpecPlace == InitPlace /\ [][NextPlace]_vars

(***************************************************************************)
(* SpecDate: the date helpers on a clock drawn from DateDays days          *)
(***************************************************************************)
InitDate ==
    /\ pc = "clock"
    /\ err = "none"
    /\ grid = ZeroGrid
    /\ InitArgs
    /\ InitRun
    /\ today \in Todays(DateDays)

\* start = get_heatmap_start()
GetStart ==
    /\ pc = "clock"
    /\ start' = get_heatmap_start(today)
    /\ pc' = "anchored"
    /\ UNCHANGED <<err, grid, today, placeVars, commitVars, previewVars, rerunVars,
                   dateVars>>

\* col_row_to_date(start, COLS - 1, r) for a row r of the last column
LastColumnDate ==
    /\ pc \in {"anchored", "dated"}
    /\ \E r \in 0..(ROWS - 1) :
          /\ cell' = (COLS - 1) * ROWS + r
          /\ end_date' = col_row_to_date(start, COLS - 1, r)
    /\ pc' = "dated"
    /\ UNCHANGED <<err, grid, today, start, placeVars, commitVars, previewVars,
                   rerunVars>>

NextDate == GetStart \/ LastColumnDate

SpecDate == InitDate /\ [][NextDate]_vars

(***************************************************************************)
(* Vocabulary of the properties                                            *)
(***************************************************************************)
Running == pc \in {"commit", "done"}
Shaded == pc \in {"shaded", "previewed", "commit", "done"}

\* the total weight T of a grid, column by column
GridWeight(g) ==
    SumSeq([c \in 0..(COLS - 1) |-> SumSeq([r \in 0..(ROWS - 1) |-> g[r][c]], ROWS - 1)],
           COLS - 1)

AtNoon(ts) == Len(ts) = 6 /\ ts[4] = 12 /\ ts[5] = 0 /\ ts[6] = 0

\* order of two timestamps of the form YYYY-MM-DDThh:mm:ss
RECURSIVE LexLess(_, _, _)
LexLess(a, b, k) ==
    IF k > Len(a) \/ k > Len(b) THEN FALSE
    ELSE a[k] < b[k] \/ (a[k] = b[k] /\ LexLess(a, b, k + 1))
TsLess(a, b) == LexLess(a, b, 1)
TsLeq(a, b) == a = b \/ TsLess(a, b)

\* invocations k - 1 and k are in order
InOrder(k) ==
    /\ TsLeq(log[k - 1].author, log[k].author)
    /\ TsLeq(log[k - 1].committer, log[k].committer)
    /\ (log[k - 1].col # log[k].col \/ log[k - 1].row # log[k].row)
          => TsLess(log[k - 1].author, log[k].author)

\* C1: make_commits performs exactly T invocations, T the grid's total weight, and
\* then stops; attempted equals the number of invocations made so far and T at
\* completion, whatever failed, and failed equals the number of invocations that
\* returned a non-zero status.
C1_AttemptedAndFailed ==
    /\ count = Len(log)
    /\ errors = nonzero
    /\ Len(log) <= GridWeight(grid)
    /\ pc = "done" => /\ Len(log) = GridWeight(grid)
                      /\ count = GridWeight(grid)
                      /\ ~ENABLED (CommitOK \/ CommitFail)

C1_Witness == pc = "done" /\ nonzero > 0 /\ nonzero < count

\* C2: once a column is done, and for every cell at completion, a cell's date (start + 7 * col + row days, at noon) is the
\* timestamp of exactly as many invocations as the cell's weight; every invocation
\* passes the same timestamp as author date and as committer date.
InvocationsOn(d) == Cardinality({k \in 1..Len(log) : ymd2ord(log[k].author) = d})

C2_PerCellInvocations ==
    /\ \A k \in 1..Len(log) : log[k].author = log[k].committer /\ AtNoon(log[k].author)
    /\ (Running /\ col > 0) =>
          \A r \in 0..6 : InvocationsOn(start + 7 * (col - 1) + r) = grid[r][col - 1]
    /\ pc = "done" =>
          \A n \in Cells :
             InvocationsOn(start + 7 * (n \div ROWS) + (n % ROWS)) = grid[n % ROWS][n \div ROWS]

C2_Witness ==
    /\ pc = "done"
    /\ \E n \in Cells : grid[n % ROWS][n \div ROWS] = 0
    /\ \E n \in Cells : grid[n % ROWS][n \div ROWS] > 1

\* C3: the invocations' timestamps never decrease, and increase from one cell to
\* the next; the cell dates increase along the column-major enumeration.
C3_Monotonic ==
    /\ \A k \in 2..Len(log) : InOrder(k)
    /\ Running =>
             \A n \in Cells \ {0} :
                col_row_to_date(start, (n - 1) \div ROWS, (n - 1) % ROWS)
                   < col_row_to_date(start, n \div ROWS, n % ROWS)

\* an invocation on 29 February, and two consecutive invocations in different
\* columns and different years
C3_Witness ==
    /\ \E k \in 1..Len(log) : log[k].author[2] = 2 /\ log[k].author[3] = 29
    /\ \E k \in 2..Len(log) : /\ log[k - 1].col # log[k].col
                              /\ log[k - 1].author[1] < log[k].author[1]

\* foreground pixels of the composition
InSprite(spr, at, r, c) == c \in at..(at + 6) /\ spr[r + 1][c - at + 1] = 1
Foreground(r, c) ==
    \/ InSprite(GHOST, 3, r, c)
    \/ InSprite(PACMAN_LEFT, 41, r, c)
    \/ (r = 3 /\ c \in 11..39 /\ c % 2 = 1)

\* C4: the grid is 7 x 52 in every phase, and once shaded a cell is 0 exactly when
\* it is a ghost pixel (columns 3..9), a Pac-Man pixel (columns 41..47) or a trail
\* cell (row 3, odd column in 11..39), and 10 otherwise.
C4_GridShape ==
    /\ err = "none"
    /\ DOMAIN grid = 0..6
    /\ \A r \in 0..6 : DOMAIN grid[r] = 0..51
    /\ Shaded => \A r \in 0..6 : \A c \in 0..51 :
                    grid[r][c] = IF Foreground(r, c) THEN 0 ELSE 10

C4_Witness == pc = "shaded" /\ grid[3][11] = 0 /\ grid[3][12] = 10 /\ grid[0][3] = 10

\* C5: preview's total, (number of cells equal to W) * W, is make_commits' total,
\* the sum of the weights, and the number of invocations make_commits performs.
C5_TotalsAgree ==
    /\ Shaded => PreviewTotal(grid) = TotalNeeded(grid)
    /\ pc = "previewed" => total_commits = GridWeight(grid)
    /\ Running => total_needed = PreviewTotal(grid)
    /\ pc = "done" => Len(log) = PreviewTotal(grid)

C5_Witness == pc = "done" /\ Len(log) > 0 /\ Len(log) = LitFill(grid) * COMMITS_FILL

\* C7 as stated: a progress line each time the number of successful invocations
\* reaches a multiple of 200, and at no other point.
C7_EverySuccessful == Len(progress) = (count - nonzero) \div 200

\* C7 amended: a progress line each time the number of attempted invocations,
\* failed ones included, reaches a multiple of 200, and at no other point; the
\* line shows that number.
C7_EveryAttempted ==
    /\ Len(progress) = count \div 200
    /\ \A k \in 1..Len(progress) : progress[k] = 200 * k

C7_Witness ==
    /\ nonzero > 0
    /\ Len(progress) >= 1
    /\ progress[Len(progress)] > count - nonzero

\* C8: the k-th invocation of a run, failed ones counted, carries the label with
\* counter k; no two invocations carry the same message.
C8_UniqueMessages ==
    /\ \A k \in 1..Len(log) : log[k].msg = <<"pixel #">> \o Digits(k)
    /\ Cardinality({log[k].msg : k \in 1..Len(log)}) = Len(log)

C8_Witness == pc = "done" /\ nonzero > 0 /\ Len(log) > 1000

\* C9: the history is append-only and the label counter restarts at 1 in each
\* run: while nothing has failed, the second run adds a second copy, labels 1, 2,
\* ... again, after the T commits of the first, so that after two complete runs the
\* history holds 2 * T commits, labels 1..T twice; both runs compute the same grid.
C9_SecondCopy ==
    (Running /\ run = 2 /\ nonzero = 0) =>
        LET T == GridWeight(grid)
        IN  /\ T > 0
            /\ grid = grid1
            /\ Len(repo) = T + count
            /\ \A k \in 1..T : repo[k].msg = <<"pixel #">> \o Digits(k)
            /\ \A k \in 1..count : repo[T + k].msg = <<"pixel #">> \o Digits(k)
            /\ pc = "done" => Len(repo) = 2 * T

C9_Witness == pc = "done" /\ run = 2 /\ nonzero = 0 /\ Len(repo) > Len(log)

\* a Sunday, by the calendar: 2028-03-05 is one
IsSunday(d) == (d - ymd2ord(<<2028, 3, 5>>)) % 7 = 0
LastSunday(d) == CHOOSE s \in (d - 6)..d : IsSunday(s)

\* C6: whatever day today is, get_heatmap_start returns a Sunday, the one 357 days
\* before the most recent Sunday on or before today; the last cell's date is on or
\* after today, and today is the date of a cell of column 51.
C6_StartIsSunday ==
    pc \in {"anchored", "dated"} =>
        /\ IsSunday(start)
        /\ start = LastSunday(today) - 357
        /\ col_row_to_date(start, 51, 6) >= today
        /\ \E r \in 0..6 : col_row_to_date(start, 51, r) = today
        /\ pc = "dated" => end_date - start = 7 * 51 + (cell - 7 * 51)

C6_Witness ==
    /\ pc = "dated"
    /\ end_date = today
    /\ ~IsSunday(today)
    /\ ord2ymd(today) = <<2029, 1, 1>>

\* C10: place() at an offset >= 0 with offset + 7 > 52 raises nothing, writes sprite
\* column c to grid column offset + c exactly when offset + c < 52, and leaves
\* every other cell as it was.
C10_Clip ==
    (pc \in {"placed", "raised"} /\ start_col >= 0 /\ start_col + 7 > 52) =>
        /\ err = "none"
        /\ pc = "placed"
        /\ \A r \in 0..6 : \A c \in 0..51 :
              grid[r][c] = IF c >= start_col
                           THEN (IF sprite[r + 1][c - start_col + 1] # 0 THEN 1 ELSE 0)
                           ELSE grid0[r][c]

C10_Witness ==
    /\ pc = "placed"
    /\ start_col = 50
    /\ sprite = MIXED
    /\ grid0 = ZeroGrid
    /\ \E r \in 0..6 : sprite[r + 1][1] = 2 /\ grid[r][50] = 1
    /\ \E r \in 0..6 : sprite[r + 1][3] # 0 /\ grid[r][0] = 0

====
